---------------------------- MODULE Spec2Model ----------------------------
(***************************************************************************)
(* Model of the RITCH decode engine: the big-endian field readers, the     *)
(* three message decoders (Orders, Trades, Modifications) of               *)
(* src/src/MessageTypes.cpp and the orchestrator getMessagesTemplate of    *)
(* src/src/getMessages.cpp.                                                *)
(*                                                                         *)
(* A frame is a sequence of bytes (0..255); C's buf[i] is frame[i + 1].    *)
(* Text is a sequence of bytes too ('A' is 65, ' ' is 32).                 *)
(***************************************************************************)
EXTENDS Integers, Sequences, FiniteSets, TLC

\* ------------------------------------------------------------------ bounds

\* The longest input file, in frames.
MaxFrames == 3

\* The window arguments a caller passes are drawn from 0..MaxCount.
MaxCount == 3

\* The length of the byte buffers the field readers are tried on.
CodecBufLen == 9

\* ------------------------------------------------------------ field codec

\* buf[i] of the C code.
Byte(buf, i) == buf[i + 1]

\* *reinterpret_cast<uintN_t*>(&buf[off]) on a little-endian host: the n bytes
\* at off as a word, least significant byte first.
LoadWord(buf, off, n) == [i \in 1..n |-> Byte(buf, off + i - 1)]

\* __builtin_bswap16/32/64: the bytes of the word in reverse order.
bswap(w) == [i \in 1..Len(w) |-> w[Len(w) + 1 - i]]

\* The unsigned value of a word given least significant byte first.
RECURSIVE WordValue(_)
WordValue(w) ==
  IF Len(w) = 0 THEN 0
  ELSE w[1] + 256 * WordValue(SubSeq(w, 2, Len(w)))

\* The unsigned int get2bytes returns, as a word: the swapped 16-bit word
\* widened to 32 bits.
get2bytesWord(buf, off) == bswap(LoadWord(buf, off, 2)) \o <<0, 0>>

get2bytes(buf, off) == WordValue(get2bytesWord(buf, off))

\* The unsigned int get4bytes returns, as a word.
get4bytesWord(buf, off) == bswap(LoadWord(buf, off, 4))

get4bytes(buf, off) == WordValue(get4bytesWord(buf, off))

\* get6bytesWord keeping the low 48 bits of the swapped word for the high 48.
get6bytesWord_LowBytes(buf, off) ==
  LET w == bswap(LoadWord(buf, off, 8)) IN SubSeq(w, 1, 6) \o <<0, 0>>

\* (bswap64(load of 8 bytes) & 0xFFFFFFFFFFFF0000) >> 16, as a word: the two
\* least significant bytes of the swapped word are masked out and shifted
\* away, zeros come in at the top.
get6bytesWord(buf, off) ==
  LET w == bswap(LoadWord(buf, off, 8)) IN SubSeq(w, 3, 8) \o <<0, 0>>

get6bytes(buf, off) == WordValue(get6bytesWord(buf, off))

\* The unsigned long long get8bytes returns, as a word.
get8bytesWord(buf, off) == bswap(LoadWord(buf, off, 8))

get8bytes(buf, off) == WordValue(get8bytesWord(buf, off))

\* --------------------------------------------------------- message decoders

\* The decoder variants the front ends getOrders_impl, getTrades_impl and
\* getModifications_impl construct.
Variants == {"Orders", "Trades", "Modifications"}

\* The type codes each variant accepts: 'A' 'F'; 'P' 'Q' 'B'; 'E' 'C' 'X' 'D' 'U'.
ValidTypesOf(v) ==
  CASE v = "Orders" -> {65, 70}
    [] v = "Trades" -> {80, 81, 66}
    [] v = "Modifications" -> {69, 67, 88, 68, 85}

\* The output columns of each variant, as getDF lists them.
ColumnsOf(v) ==
  CASE v = "Orders" ->
         {"type", "locateCode", "trackingNumber", "timestamp", "orderRef",
          "buy", "shares", "stock", "price", "mpid"}
    [] v = "Trades" ->
         {"type", "locateCode", "trackingNumber", "timestamp", "orderRef",
          "buy", "shares", "stock", "price", "matchNumber", "crossType"}
    [] v = "Modifications" ->
         {"type", "locateCode", "trackingNumber", "timestamp", "orderRef",
          "shares", "matchNumber", "printable", "price", "newOrderRef"}

\* A freshly constructed decoder: nothing counted, every column empty. The
\* boundaries are set by setBoundaries before the first loadMessages.
NewDecoder(v, vt) ==
  [variant |-> v, validTypes |-> vt, messageCount |-> 0,
   startMsgCount |-> 0, endMsgCount |-> 0, reserved |-> <<>>,
   cols |-> [c \in ColumnsOf(v) |-> <<>>]]

setBoundaries(m, s, e) == [m EXCEPT !.startMsgCount = s, !.endMsgCount = e]

\* reserve(size): capacity only, the columns keep their contents. The sizes
\* asked for are kept in order.
reserve(m, size) == [m EXCEPT !.reserved = Append(@, size)]

\* column.push_back(v)
push_back(cols, c, v) == [cols EXCEPT ![c] = Append(@, v)]

\* rightMessage without the type filter: every frame passes.
rightMessage_Any(m, buf) == TRUE

\* The loop over validTypes: whether buf[0] is one of them.
rightMessage(m, buf) == \E t \in m.validTypes : Byte(buf, 0) = t

\* BeforeWindow with <= for <: the first frame of the window is not collected.
BeforeWindow_OffByOne(m) == m.messageCount <= m.startMsgCount

\* messageCount < startMsgCount: the frame is counted and not collected yet.
BeforeWindow(m) == m.messageCount < m.startMsgCount

\* AfterWindow that never holds.
AfterWindow_Never(m) == FALSE

\* AfterWindow one frame late.
AfterWindow_Late(m) == m.messageCount > m.endMsgCount + 1

\* messageCount > endMsgCount: nothing more is collected, ever.
AfterWindow(m) == m.messageCount > m.endMsgCount

\* The n bytes at off that are not ' ', in order.
RECURSIVE NonWhite(_, _, _)
NonWhite(buf, off, n) ==
  IF n = 0 THEN <<>>
  ELSE (IF Byte(buf, off) # 32 THEN <<Byte(buf, off)>> ELSE <<>>)
       \o NonWhite(buf, off + 1, n - 1)

\* (double) get4bytes(&buf[off]) / 10000.0, kept as the count of 1/10000
\* units (0.0 is 0).
PriceAt(buf, off) == get4bytes(buf, off)

\* The common head of every loadMessages: the type filter and the window.
\* "skip": return true untouched; "count": ++messageCount, return true;
\* "stop": return false; "parse": decode the frame.
Disposition(m, buf) ==
  IF ~rightMessage(m, buf) THEN "skip"
  ELSE IF BeforeWindow(m) THEN "count"
  ELSE IF AfterWindow(m) THEN "stop"
  ELSE "parse"

\* The columns after an Orders frame is parsed.
OrdersParse(cols, buf) ==
  LET c1 == push_back(cols, "type", Byte(buf, 0))
      c2 == push_back(c1, "locateCode", get2bytes(buf, 1))
      c3 == push_back(c2, "trackingNumber", get2bytes(buf, 3))
      c4 == push_back(c3, "timestamp", get6bytes(buf, 5))
      c5 == push_back(c4, "orderRef", get8bytes(buf, 11))
      c6 == push_back(c5, "buy", Byte(buf, 19) = 66)
      c7 == push_back(c6, "shares", get4bytes(buf, 20))
      c8 == push_back(c7, "stock", NonWhite(buf, 24, 8))
      c9 == push_back(c8, "price", PriceAt(buf, 32))
  IN push_back(c9, "mpid",
               IF Byte(buf, 0) = 70 THEN NonWhite(buf, 36, 4) ELSE <<>>)

TradesCaseP(cols, buf) ==
  LET c1 == push_back(cols, "orderRef", get8bytes(buf, 11))
      c2 == push_back(c1, "buy", Byte(buf, 19) = 66)
      c3 == push_back(c2, "shares", get4bytes(buf, 20))
      c4 == push_back(c3, "stock", NonWhite(buf, 24, 8))
      c5 == push_back(c4, "price", PriceAt(buf, 32))
      c6 == push_back(c5, "matchNumber", get8bytes(buf, 36))
  IN push_back(c6, "crossType", 32)

TradesCaseQ(cols, buf) ==
  LET c1 == push_back(cols, "shares", get4bytes(buf, 11))
      c2 == push_back(c1, "stock", NonWhite(buf, 19, 8))
      c3 == push_back(c2, "price", PriceAt(buf, 27))
      c4 == push_back(c3, "matchNumber", get8bytes(buf, 31))
      c5 == push_back(c4, "crossType", Byte(buf, 39))
      c6 == push_back(c5, "orderRef", 0)
  IN push_back(c6, "buy", FALSE)

\* TradesCaseB without the push to crossType.
TradesCaseB_NoCrossType(cols, buf) ==
  LET c1 == push_back(cols, "matchNumber", get8bytes(buf, 11))
      c2 == push_back(c1, "orderRef", 0)
      c3 == push_back(c2, "buy", FALSE)
      c4 == push_back(c3, "shares", 0)
      c5 == push_back(c4, "stock", <<>>)
  IN push_back(c5, "price", 0)

TradesCaseB(cols, buf) ==
  LET c1 == push_back(cols, "matchNumber", get8bytes(buf, 11))
      c2 == push_back(c1, "orderRef", 0)
      c3 == push_back(c2, "buy", FALSE)
      c4 == push_back(c3, "shares", 0)
      c5 == push_back(c4, "stock", <<>>)
      c6 == push_back(c5, "price", 0)
  IN push_back(c6, "crossType", 32)

\* The columns after a Trades frame is parsed; the default case of the switch
\* only prints.
TradesParse(cols, buf) ==
  LET c1 == push_back(cols, "type", Byte(buf, 0))
      c2 == push_back(c1, "locateCode", get2bytes(buf, 1))
      c3 == push_back(c2, "trackingNumber", get2bytes(buf, 3))
      c4 == push_back(c3, "timestamp", get6bytes(buf, 5))
  IN CASE Byte(buf, 0) = 80 -> TradesCaseP(c4, buf)
       [] Byte(buf, 0) = 81 -> TradesCaseQ(c4, buf)
       [] Byte(buf, 0) = 66 -> TradesCaseB(c4, buf)
       [] OTHER -> c4

\* The printable column holds the integral value of what is pushed: 'N' is 78,
\* false is 0, a byte of the frame is itself.
ModificationsCaseE(cols, buf) ==
  LET c1 == push_back(cols, "shares", get4bytes(buf, 19))
      c2 == push_back(c1, "matchNumber", get8bytes(buf, 23))
      c3 == push_back(c2, "printable", 78)
      c4 == push_back(c3, "price", 0)
  IN push_back(c4, "newOrderRef", 0)

ModificationsCaseC(cols, buf) ==
  LET c1 == push_back(cols, "shares", get4bytes(buf, 19))
      c2 == push_back(c1, "matchNumber", get8bytes(buf, 23))
      c3 == push_back(c2, "printable", Byte(buf, 31))
      c4 == push_back(c3, "price", PriceAt(buf, 32))
  IN push_back(c4, "newOrderRef", 0)

ModificationsCaseX(cols, buf) ==
  LET c1 == push_back(cols, "shares", get4bytes(buf, 19))
      c2 == push_back(c1, "matchNumber", 0)
      c3 == push_back(c2, "printable", 0)
      c4 == push_back(c3, "price", 0)
  IN push_back(c4, "newOrderRef", 0)

ModificationsCaseD(cols, buf) ==
  LET c1 == push_back(cols, "shares", 0)
      c2 == push_back(c1, "matchNumber", 0)
      c3 == push_back(c2, "printable", 0)
      c4 == push_back(c3, "price", 0)
  IN push_back(c4, "newOrderRef", 0)

ModificationsCaseU(cols, buf) ==
  LET c1 == push_back(cols, "newOrderRef", get8bytes(buf, 19))
      c2 == push_back(c1, "shares", get4bytes(buf, 27))
      c3 == push_back(c2, "price", PriceAt(buf, 31))
      c4 == push_back(c3, "matchNumber", 0)
  IN push_back(c4, "printable", 0)

\* The columns after a Modifications frame is parsed; the default case of the
\* switch only prints.
ModificationsParse(cols, buf) ==
  LET c1 == push_back(cols, "type", Byte(buf, 0))
      c2 == push_back(c1, "locateCode", get2bytes(buf, 1))
      c3 == push_back(c2, "trackingNumber", get2bytes(buf, 3))
      c4 == push_back(c3, "timestamp", get6bytes(buf, 5))
      c5 == push_back(c4, "orderRef", get8bytes(buf, 11))
  IN CASE Byte(buf, 0) = 69 -> ModificationsCaseE(c5, buf)
       [] Byte(buf, 0) = 67 -> ModificationsCaseC(c5, buf)
       [] Byte(buf, 0) = 88 -> ModificationsCaseX(c5, buf)
       [] Byte(buf, 0) = 68 -> ModificationsCaseD(c5, buf)
       [] Byte(buf, 0) = 85 -> ModificationsCaseU(c5, buf)
       [] OTHER -> c5

\* loadMessages(buf) of the decoder m (virtual dispatch on the variant): the
\* decoder afterwards and the value returned.
loadMessages(m, buf) ==
  LET d == Disposition(m, buf)
      parsed == CASE m.variant = "Orders" -> OrdersParse(m.cols, buf)
                  [] m.variant = "Trades" -> TradesParse(m.cols, buf)
                  [] m.variant = "Modifications" ->
                       ModificationsParse(m.cols, buf)
  IN CASE d = "skip" -> [msg |-> m, ret |-> TRUE]
       [] d = "count" ->
            [msg |-> [m EXCEPT !.messageCount = @ + 1], ret |-> TRUE]
       [] d = "stop" -> [msg |-> m, ret |-> FALSE]
       [] d = "parse" ->
            [msg |-> [m EXCEPT !.cols = parsed, !.messageCount = @ + 1],
             ret |-> TRUE]

\* getDF: the columns, by name.
getDF(m) == m.cols

\* ------------------------------------------------------------- input files

\* v in w bytes, most significant first: how the feed writes an integer.
RECURSIVE BE(_, _)
BE(v, w) == IF w = 0 THEN <<>> ELSE BE(v \div 256, w - 1) \o <<v % 256>>

\* type, locate code 1, tracking number 2, timestamp 5: the head every
\* message of the feed starts with (bytes 0..10).
MsgHead(t) == <<t>> \o BE(1, 2) \o BE(2, 2) \o BE(5, 6)

\* "AAPL    "
StockAAPL == <<65, 65, 80, 76, 32, 32, 32, 32>>

\* 'A': order reference 100, 'B'uy, 500 shares, AAPL, price 150.0000.
FrameA == MsgHead(65) \o BE(100, 8) \o <<66>> \o BE(500, 4) \o StockAAPL
          \o BE(1500000, 4)

\* 'F': as 'A', 'S'ell, with the MPID "GS  ".
FrameF == MsgHead(70) \o BE(101, 8) \o <<83>> \o BE(300, 4) \o StockAAPL
          \o BE(250, 4) \o <<71, 83, 32, 32>>

\* 'P': order reference, side, shares, stock, price, match number.
FrameP == MsgHead(80) \o BE(102, 8) \o <<66>> \o BE(200, 4) \o StockAAPL
          \o BE(12340000, 4) \o BE(7, 8)

\* 'Q': shares (8 bytes), stock, cross price, match number, cross type 'O'.
FrameQ == MsgHead(81) \o BE(900, 8) \o StockAAPL \o BE(1500000, 4) \o BE(8, 8)
          \o <<79>>

\* 'B': match number.
FrameB == MsgHead(66) \o BE(7, 8)

\* 'E': order reference, executed shares, match number.
FrameE == MsgHead(69) \o BE(100, 8) \o BE(50, 4) \o BE(9, 8)

\* 'C': as 'E', printable 'Y', price.
FrameC == MsgHead(67) \o BE(100, 8) \o BE(50, 4) \o BE(10, 8) \o <<89>>
          \o BE(1500000, 4)

\* 'X': order reference, cancelled shares.
FrameX == MsgHead(88) \o BE(100, 8) \o BE(25, 4)

\* 'D': order reference.
FrameD == MsgHead(68) \o BE(100, 8)

\* 'U': original order reference, new order reference, shares, price.
FrameU == MsgHead(85) \o BE(100, 8) \o BE(103, 8) \o BE(400, 4) \o BE(1510000, 4)

\* 'I': a message of the feed (net order imbalance, 50 bytes) that no variant
\* accepts.
FrameI == MsgHead(73) \o BE(11, 8) \o BE(12, 8) \o <<78>> \o StockAAPL
          \o BE(1, 4) \o BE(2, 4) \o BE(3, 4) \o <<79, 76>>

\* The frames the files of a variant's sessions are made of: one of each type
\* the variant accepts and one it does not.
FramesOf(v) ==
  CASE v = "Orders" -> {FrameA, FrameF, FrameI}
    [] v = "Trades" -> {FrameP, FrameQ, FrameB, FrameI}
    [] v = "Modifications" ->
         {FrameE, FrameC, FrameX, FrameD, FrameU, FrameI}

\* Every sequence over S of length at most n.
SeqsUpTo(S, n) == UNION {[1..k -> S] : k \in 0..n}

\* ------------------------------------------------------------ orchestrator

VARIABLES
  variant,        \* the decoder variant the front end constructs
  validTypes,     \* the type codes that variant declares
  file,           \* the input file: a sequence of frames
  argStart,       \* startMsgCount as the caller passes it
  argEnd,         \* endMsgCount as the caller passes it (0: not given)
  startMsgCount,  \* getMessagesTemplate's startMsgCount
  endMsgCount,    \* getMessagesTemplate's endMsgCount
  nMessages,      \* getMessagesTemplate's nMessages
  msg,            \* the decoder object
  pc,             \* where getMessagesTemplate stands
  pos,            \* the loader's next frame in file
  ret,            \* what the last loadMessages returned
  steps,          \* the collaborators called so far in this call, in order
  loadCalls,      \* the loadMessages calls of this call
  calls,          \* the calls that returned: their arguments and tables
  codec           \* the last call of a field reader: which, where, its word

vars == <<variant, validTypes, file, argStart, argEnd, startMsgCount,
          endMsgCount, nMessages, msg, pc, pos, ret, steps, loadCalls, calls,
          codec>>

\* The frame at 0-based place i of the file.
FrameAt(i) == file[i + 1]

\* countMessages: per type byte, how many frames of the file carry it.
countMessages(f) ==
  [t \in 0..255 |-> Cardinality({i \in 1..Len(f) : Byte(f[i], 0) = t})]

\* The slots of the count vector a decoder sums: those of its valid types.
typePositions(m) == m.validTypes

RECURSIVE SumOver(_, _)
SumOver(S, count) ==
  IF S = {} THEN 0
  ELSE LET x == CHOOSE y \in S : TRUE
       IN count[x] + SumOver(S \ {x}, count)

\* countValidMessages(count): the sum of count over typePositions.
countValidMessages(m, count) == SumOver(typePositions(m), count)

\* NormalizeWindow without the swap.
NormalizeWindow_NoSwap(s, e) == <<s, e>>

\* The window after "if (startMsgCount > endMsgCount) swap".
NormalizeWindow(s, e) == IF s > e THEN <<e, s>> ELSE <<s, e>>

\* NoEndGiven that counts on every call.
NoEndGiven_Always(e) == TRUE

\* "if (endMsgCount == 0ULL)": no end was given, count the messages.
NoEndGiven(e) == e = 0

\* A session before its front end is called.
InitWith(v, vt, f, s, e) ==
  /\ variant = v
  /\ validTypes = vt
  /\ file = f
  /\ argStart = s
  /\ argEnd = e
  /\ startMsgCount = 0
  /\ endMsgCount = 0
  /\ nMessages = 0
  /\ msg = NewDecoder(v, vt)
  /\ pc = "idle"
  /\ pos = 0
  /\ ret = TRUE
  /\ steps = <<>>
  /\ loadCalls = 0
  /\ calls = <<>>
  /\ codec = [fn |-> "none", off |-> 0, word |-> <<>>]

Init ==
  \E v \in Variants :
    \E f \in SeqsUpTo(FramesOf(v), MaxFrames) :
      \E s \in 0..MaxCount, e \in 0..MaxCount :
        InitWith(v, ValidTypesOf(v), f, s, e)

\* getOrders_impl / getTrades_impl / getModifications_impl: a fresh decoder
\* and the call of getMessagesTemplate with the arguments s, e.
Enter(s, e) ==
  /\ argStart' = s
  /\ argEnd' = e
  /\ startMsgCount' = s
  /\ endMsgCount' = e
  /\ nMessages' = 0
  /\ msg' = NewDecoder(variant, validTypes)
  /\ pc' = "normalize"
  /\ pos' = 0
  /\ ret' = TRUE
  /\ steps' = <<>>
  /\ loadCalls' = 0
  /\ UNCHANGED <<codec, variant, validTypes,
                 file, calls>>

Call ==
  /\ pc = "idle"
  /\ Enter(argStart, argEnd)

\* The same file decoded once more, for comparison: with the two window
\* arguments exchanged, or with no window at all.
CallAgain ==
  /\ pc = "done"
  /\ Len(calls) = 1
  /\ \E w \in {<<argEnd, argStart>>, <<0, 0>>} : Enter(w[1], w[2])

Normalize ==
  /\ pc = "normalize"
  /\ LET w == NormalizeWindow(startMsgCount, endMsgCount)
     IN /\ startMsgCount' = w[1]
        /\ endMsgCount' = w[2]
  /\ steps' = Append(steps, "normalize")
  /\ pc' = "size"
  /\ UNCHANGED <<codec, variant, validTypes,
                 file, argStart, argEnd, nMessages, msg,
                 pos, ret, loadCalls, calls>>

Count ==
  /\ pc = "size"
  /\ NoEndGiven(endMsgCount)
  /\ LET count == countMessages(file)
         total == countValidMessages(msg, count)
     IN /\ endMsgCount' = total
        /\ nMessages' = total - startMsgCount
  /\ steps' = Append(steps, "count")
  /\ pc' = "reserve"
  /\ UNCHANGED <<codec, variant, validTypes,
                 file, argStart, argEnd, startMsgCount,
                 msg, pos, ret, loadCalls, calls>>

Size ==
  /\ pc = "size"
  /\ ~NoEndGiven(endMsgCount)
  /\ nMessages' = endMsgCount - startMsgCount + 1
  /\ pc' = "reserve"
  /\ UNCHANGED <<codec, variant, validTypes,
                 file, argStart, argEnd, startMsgCount,
                 endMsgCount, msg, pos, ret, steps, loadCalls, calls>>

Reserve ==
  /\ pc = "reserve"
  /\ msg' = reserve(msg, nMessages)
  /\ steps' = Append(steps, "reserve")
  /\ pc' = "load"
  /\ UNCHANGED <<codec, variant, validTypes,
                 file, argStart, argEnd, startMsgCount,
                 endMsgCount, nMessages, pos, ret, loadCalls, calls>>

\* loadToMessages begins: the boundaries are handed to the decoder.
LoadStart ==
  /\ pc = "load"
  /\ msg' = setBoundaries(msg, startMsgCount, endMsgCount)
  /\ pos' = 0
  /\ steps' = Append(steps, "load")
  /\ pc' = "loading"
  /\ UNCHANGED <<codec, variant, validTypes,
                 file, argStart, argEnd, startMsgCount,
                 endMsgCount, nMessages, ret, loadCalls, calls>>

\* loadToMessages hands the next complete frame to loadMessages, and stops
\* the scan when it returns false.
LoadFrame ==
  /\ pc = "loading"
  /\ pos < Len(file)
  /\ LET r == loadMessages(msg, FrameAt(pos))
     IN /\ msg' = r.msg
        /\ ret' = r.ret
        /\ pc' = IF r.ret THEN "loading" ELSE "convert"
  /\ pos' = pos + 1
  /\ loadCalls' = loadCalls + 1
  /\ UNCHANGED <<codec, variant, validTypes,
                 file, argStart, argEnd, startMsgCount,
                 endMsgCount, nMessages, steps, calls>>

\* loadToMessages reaches the end of the file.
LoadEnd ==
  /\ pc = "loading"
  /\ pos = Len(file)
  /\ pc' = "convert"
  /\ UNCHANGED <<codec, variant, validTypes,
                 file, argStart, argEnd, startMsgCount,
                 endMsgCount, nMessages, msg, pos, ret, steps, loadCalls,
                 calls>>

\* msg.getDF() and the return of the table.
Convert ==
  /\ pc = "convert"
  /\ calls' = Append(calls, [start |-> argStart, end |-> argEnd,
                             df |-> getDF(msg)])
  /\ steps' = Append(steps, "getDF")
  /\ pc' = "done"
  /\ UNCHANGED <<codec, variant, validTypes,
                 file, argStart, argEnd, startMsgCount,
                 endMsgCount, nMessages, msg, pos, ret, loadCalls>>

Next ==
  \/ Call
  \/ CallAgain
  \/ Normalize
  \/ Count
  \/ Size
  \/ Reserve
  \/ LoadStart
  \/ LoadFrame
  \/ LoadEnd
  \/ Convert

Spec == Init /\ [][Next]_vars

\* A decoder whose validTypes holds a code its switch has no case for ('I'):
\* the sessions that reach the default case of the switch.
InitUnknownType ==
  \E v \in {"Trades", "Modifications"} :
    \E f \in SeqsUpTo(FramesOf(v), MaxFrames) :
      \E s \in 0..MaxCount, e \in 0..MaxCount :
        InitWith(v, ValidTypesOf(v) \cup {73}, f, s, e)

SpecUnknownType == InitUnknownType /\ [][Next]_vars

\* The frames that carry a stock symbol, with the symbol field st.
SymbolFrames(st) ==
  {MsgHead(65) \o BE(100, 8) \o <<66>> \o BE(500, 4) \o st \o BE(1500000, 4),
   MsgHead(80) \o BE(102, 8) \o <<66>> \o BE(200, 4) \o st
     \o BE(12340000, 4) \o BE(7, 8),
   MsgHead(81) \o BE(900, 8) \o st \o BE(1500000, 4) \o BE(8, 8) \o <<79>>}

\* Files of one frame whose 8-byte symbol field is any text over ' ', 'A', 'B'.
InitSymbol ==
  \E st \in [1..8 -> {32, 65, 66}] :
    \E fr \in SymbolFrames(st) :
      \E e \in {0, 1} :
        InitWith(IF Byte(fr, 0) = 65 THEN "Orders" ELSE "Trades",
                 ValidTypesOf(IF Byte(fr, 0) = 65 THEN "Orders" ELSE "Trades"),
                 <<fr>>, 0, e)

SpecSymbol == InitSymbol /\ [][Next]_vars

\* ------------------------------------------------------------- properties

Range(q) == {q[i] : i \in 1..Len(q)}

MinOf(a, b) == IF a < b THEN a ELSE b

MaxOf(a, b) == IF a > b THEN a ELSE b

\* The frames of the file whose type the decoder accepts, in file order.
Recognized == SelectSeq(file, LAMBDA fr : Byte(fr, 0) \in validTypes)

\* The type bytes of a sequence of frames.
TypesOf(frames) == [i \in 1..Len(frames) |-> Byte(frames[i], 0)]

\* The places lo..hi (0-based, inclusive) of q, as far as q goes.
Places(q, lo, hi) == SubSeq(q, lo + 1, MinOf(hi + 1, Len(q)))

\* The rows lo..hi of a table.
WindowRows(df, lo, hi) == [c \in DOMAIN df |-> Places(df[c], lo, hi)]

\* The number of rows of a table.
Rows(df) == Len(df["type"])

\* A step in which loadMessages is called on the frame at pos.
LoadMessagesCalled == loadCalls' = loadCalls + 1

\* C1: after every loadMessages, whatever the frames and the window, all the
\* output columns of the decoder have the same length.
C1_ColumnsSameLength ==
  \A c1 \in DOMAIN msg.cols, c2 \in DOMAIN msg.cols :
    Len(msg.cols[c1]) = Len(msg.cols[c2])

\* A Trades decoder that has collected a broken trade ('B') among two rows.
C1_Witness ==
  /\ variant = "Trades"
  /\ loadCalls >= 2
  /\ Rows(msg.cols) >= 2
  /\ 66 \in Range(msg.cols["type"])

\* C2 as claimed: for every window lo <= hi, lo = hi = 0 included, the rows
\* returned are the rows lo..hi of the unrestricted decode of the file, and
\* they are the recognized frames whose index lies in [lo, hi].
C2_Original ==
  \A i \in 1..Len(calls), j \in 1..Len(calls) :
    (calls[i].start <= calls[i].end /\ calls[j].start = 0 /\ calls[j].end = 0)
    => /\ calls[i].df = WindowRows(calls[j].df, calls[i].start, calls[i].end)
       /\ calls[i].df["type"] =
            TypesOf(Places(Recognized, calls[i].start, calls[i].end))

\* C2 amended: the same for every window lo <= hi with hi > 0 (a window end of
\* 0 means no end was given).
C2_WindowRows ==
  \A i \in 1..Len(calls), j \in 1..Len(calls) :
    (calls[i].start <= calls[i].end /\ calls[i].end > 0
       /\ calls[j].start = 0 /\ calls[j].end = 0)
    => /\ calls[i].df = WindowRows(calls[j].df, calls[i].start, calls[i].end)
       /\ calls[i].df["type"] =
            TypesOf(Places(Recognized, calls[i].start, calls[i].end))

\* A window [lo, hi] with 0 < lo that cut rows off both ends of the file's
\* table, beside the unrestricted decode.
C2_Witness ==
  /\ Len(calls) = 2
  /\ calls[1].start > 0
  /\ calls[1].start <= calls[1].end
  /\ calls[2].start = 0 /\ calls[2].end = 0
  /\ Rows(calls[1].df) >= 1
  /\ Rows(calls[2].df) > calls[1].end + 1

\* C3: with startMsgCount = s > 0 and no endMsgCount given, every recognized
\* message with index >= s, through the last one, is retained.
C3_StartOnly ==
  \A i \in 1..Len(calls), j \in 1..Len(calls) :
    (calls[i].start > 0 /\ calls[i].end = 0
       /\ calls[j].start = 0 /\ calls[j].end = 0)
    => calls[i].df =
         WindowRows(calls[j].df, calls[i].start, Rows(calls[j].df))

\* C4 as claimed: once messageCount > endMsgCount, the next loadMessages
\* returns false whatever the type byte of its frame.
C4_Original ==
  [][(LoadMessagesCalled /\ msg.messageCount > msg.endMsgCount)
       => ret' = FALSE]_vars

\* C4 amended: once messageCount > endMsgCount, the next loadMessages on a
\* frame of an accepted type returns false, changes nothing and ends the scan;
\* on a frame of another type it returns true and changes nothing.
C4_StopsAtNextAccepted ==
  [][(LoadMessagesCalled /\ msg.messageCount > msg.endMsgCount)
       => /\ msg' = msg
          /\ IF Byte(FrameAt(pos), 0) \in msg.validTypes
             THEN ret' = FALSE /\ pc' = "convert"
             ELSE ret' = TRUE /\ pc' = "loading"]_vars

\* The scan was stopped by loadMessages before the end of the file.
C4_Witness ==
  /\ pc = "convert"
  /\ ret = FALSE
  /\ msg.messageCount > msg.endMsgCount
  /\ pos <= Len(file)

C6_OtherTypeSkipped ==
  [][(LoadMessagesCalled /\ Byte(FrameAt(pos), 0) \notin msg.validTypes)
       => (msg' = msg /\ ret' = TRUE)]_vars

\* A frame of another type was just given to a decoder whose window is
\* already over, and the scan goes on.
C6_Witness ==
  /\ pc = "loading"
  /\ pos >= 1
  /\ ret = TRUE
  /\ Byte(FrameAt(pos - 1), 0) \notin msg.validTypes
  /\ msg.messageCount > msg.endMsgCount

\* The type codes the switch of a variant's loadMessages has a case for.
SubTypeCases(v) ==
  CASE v = "Trades" -> {80, 81, 66}
    [] v = "Modifications" -> {69, 67, 88, 68, 85}
    [] OTHER -> {}

ExpectedSteps(counted) ==
  IF counted
  THEN <<"normalize", "count", "reserve", "load", "getDF">>
  ELSE <<"normalize", "reserve", "load", "getDF">>

C9_PrintablePlaceholder ==
  variant = "Modifications" =>
    LET c == msg.cols
        plain == {i \in 1..Len(c["type"]) : c["type"][i] \in {69, 88, 68, 85}}
    IN /\ \A i \in plain : c["printable"][i] \in {32, 0}
       /\ \A i \in plain, j \in plain : c["printable"][i] = c["printable"][j]
       /\ \A i \in plain :
            c["type"][i] = 69 => (c["price"][i] = 0 /\ c["newOrderRef"][i] = 0)

\* s without the spaces at its right end.
RECURSIVE RightTrim(_)
RightTrim(s) ==
  IF Len(s) > 0 /\ s[Len(s)] = 32 THEN RightTrim(SubSeq(s, 1, Len(s) - 1))
  ELSE s

\* The 8-byte stock symbol field of an 'A', 'F', 'P' or 'Q' frame.
SymbolField(fr) ==
  IF Byte(fr, 0) = 81 THEN SubSeq(fr, 20, 27) ELSE SubSeq(fr, 25, 32)

\* C10: the stock symbol decoded from a retained Orders or Trades frame is its
\* 8-byte field without its trailing spaces; what stands before the last
\* non-space byte, spaces included, is kept in order.
C10_SymbolRightTrimmed ==
  variant \in {"Orders", "Trades"} =>
    \A i \in 1..Len(msg.cols["stock"]) :
      LET fr == Recognized[msg.startMsgCount + i]
      IN Byte(fr, 0) \in {65, 70, 80, 81}
           => msg.cols["stock"][i] = RightTrim(SymbolField(fr))

\* ------------------------------------------------- the field readers alone

\* The byte values the buffers are made of.
CodecBytes == {0, 1, 255}

\* The buffer the readers are called on.
CodecBuf == file[1]

\* Any buffer of CodecBufLen bytes, no reader called yet.
InitCodec ==
  \E b \in [1..CodecBufLen -> CodecBytes] :
    InitWith("Orders", ValidTypesOf("Orders"), <<b>>, 0, 0)

\* One call of a reader at off, its returned word kept.
ReadField(fn, off, word) ==
  /\ codec.fn = "none"
  /\ codec' = [fn |-> fn, off |-> off, word |-> word]
  /\ UNCHANGED <<variant, validTypes, file, argStart, argEnd, startMsgCount,
                 endMsgCount, nMessages, msg, pc, pos, ret, steps, loadCalls,
                 calls>>

Read2 ==
  \E off \in 0..(CodecBufLen - 8) :
    ReadField("get2bytes", off, get2bytesWord(CodecBuf, off))

Read4 ==
  \E off \in 0..(CodecBufLen - 8) :
    ReadField("get4bytes", off, get4bytesWord(CodecBuf, off))

Read6 ==
  \E off \in 0..(CodecBufLen - 8) :
    ReadField("get6bytes", off, get6bytesWord(CodecBuf, off))

Read8 ==
  \E off \in 0..(CodecBufLen - 8) :
    ReadField("get8bytes", off, get8bytesWord(CodecBuf, off))

NextCodec ==
  \/ Read2
  \/ Read4
  \/ Read6
  \/ Read8

SpecCodec == InitCodec /\ [][NextCodec]_vars

\* The number of bytes of the field a reader is for, and of the word it
\* returns (unsigned int, unsigned long long).
FieldWidth(fn) ==
  CASE fn = "get2bytes" -> 2
    [] fn = "get4bytes" -> 4
    [] fn = "get6bytes" -> 6
    [] fn = "get8bytes" -> 8

ReturnWidth(fn) == IF fn \in {"get2bytes", "get4bytes"} THEN 4 ELSE 8

\* The integer a reader returns.
ReaderValue(fn, buf, off) ==
  CASE fn = "get2bytes" -> get2bytes(buf, off)
    [] fn = "get4bytes" -> get4bytes(buf, off)
    [] fn = "get6bytes" -> get6bytes(buf, off)
    [] fn = "get8bytes" -> get8bytes(buf, off)

\* The sum of b[i] * 256^(n-1-i) over the n bytes of b, most significant
\* first.
RECURSIVE BigEndianSum(_)
BigEndianSum(b) ==
  IF Len(b) = 0 THEN 0
  ELSE 256 * BigEndianSum(SubSeq(b, 1, Len(b) - 1)) + b[Len(b)]

\* The base-256 digits of that sum, least significant first, in a word of
\* width bytes.
BigEndianDigits(b, width) ==
  [i \in 1..width |-> IF i <= Len(b) THEN b[Len(b) + 1 - i] ELSE 0]

\* Whether that sum is below 2^31, so that it can be written as an integer
\* here.
Below2p31(b) ==
  \A i \in 1..Len(b) :
    /\ i <= Len(b) - 4 => b[i] = 0
    /\ i = Len(b) - 3 => b[i] < 128

\* C11: get2bytes, get4bytes, get6bytes and get8bytes return the unsigned
\* integer formed by exactly the first 2, 4, 6 and 8 bytes, most significant
\* first; what get6bytes returns does not depend on the two bytes that follow
\* its field.
C11_BigEndianValue ==
  codec.fn # "none" =>
    LET field == SubSeq(CodecBuf, codec.off + 1,
                        codec.off + FieldWidth(codec.fn))
    IN /\ codec.word = BigEndianDigits(field, ReturnWidth(codec.fn))
       /\ Below2p31(field)
            => ReaderValue(codec.fn, CodecBuf, codec.off) = BigEndianSum(field)
       /\ codec.fn = "get6bytes" =>
            \A x \in CodecBytes, y \in CodecBytes :
              get6bytesWord([CodecBuf EXCEPT ![codec.off + 7] = x,
                                             ![codec.off + 8] = y],
                            codec.off) = codec.word

\* get6bytes was called on a field that starts with 255 and is followed by
\* two bytes 255.
C11_Witness ==
  /\ codec.fn = "get6bytes"
  /\ Byte(CodecBuf, codec.off) = 255
  /\ Byte(CodecBuf, codec.off + 5) = 1
  /\ Byte(CodecBuf, codec.off + 6) = 255
  /\ Byte(CodecBuf, codec.off + 7) = 255

\* C12: in a session with startMsgCount <= endMsgCount, through every
\* loadMessages: messageCount never decreases, messageCount <= endMsgCount + 1,
\* every column is max(0, messageCount - startMsgCount) long, and a call that
\* returns false changes neither messageCount nor any column.
C12_CountAndLength ==
  [][(LoadMessagesCalled /\ msg.startMsgCount <= msg.endMsgCount) =>
       /\ msg'.messageCount >= msg.messageCount
       /\ msg'.messageCount <= msg'.endMsgCount + 1
       /\ \A c \in DOMAIN msg'.cols :
            Len(msg'.cols[c]) = MaxOf(0, msg'.messageCount - msg'.startMsgCount)
       /\ ret' = FALSE =>
            (msg'.messageCount = msg.messageCount /\ msg'.cols = msg.cols)]_vars

\* loadMessages returned false to a decoder whose window starts after the
\* first recognized frame and that has collected rows.
C12_Witness ==
  /\ ret = FALSE
  /\ msg.startMsgCount > 0
  /\ msg.messageCount = msg.endMsgCount + 1
  /\ Rows(msg.cols) >= 1

=============================================================================
